---- MODULE Spec2Model ----
(***************************************************************************)
(* Model of the Hue node server: the light node classes of node_types.py   *)
(* (command translation for one light) and the controller node of hue.py   *)
(* (connect, discovery, polling).                                          *)
(*                                                                         *)
(* Python values that may be None are modelled as sequences of length 0    *)
(* or 1: None is << >>, a value v is <<v>>.                                *)
(***************************************************************************)
EXTENDS Integers, Sequences, FiniteSets, TLC

\* ------------------------------------------------------------------------
\* Bounds of the model
\* ------------------------------------------------------------------------

\* Number of handler invocations (commands, queries, refreshes) on a started
\* light node.
MaxCmds == 4
\* Number of set_light calls that do not succeed in full (an error entry in
\* the response, or an exception).
MaxFaults == 1

\* ------------------------------------------------------------------------
\* Program constants
\* ------------------------------------------------------------------------

DEF_TRANSTIME == 400
FADE_TRANSTIME == 4000
\* BRT / DIM step
BRT_INCREMENT == 10
\* Hue brightness range
BRI_MAX == 254
BRI_MIN == 1

None == << >>
Some(v) == <<v>>

\* Python truthiness of a None-or-integer value (`if self.saved_brightness:`).
Truthy(x) == x # None /\ x[1] # 0

\* ------------------------------------------------------------------------
\* Inputs
\* ------------------------------------------------------------------------

\* Brightness values a command may carry (any integer is accepted by int()).
BriInputs == {0, 120, 300}
\* Transition times (ms) a SET_DUR command or a D.uom42 field may carry.
DurInputs == {250, 400}
\* Brightness values the bridge reports (the Hue API keeps bri in 1..254).
BridgeBris == {1, 120}
\* Light state as the bridge reports it: data['state'].
LightData == [on : BOOLEAN, bri : BridgeBris]
\* set_light outcome: responses[0], a list of one-key dicts (the key is
\* modelled), or an exception raised by the transport.
RespKeys == {"success", "error"}
Responses == {<<"success">>, <<"success", "error">>}
Raise == <<"raise">>
Outcomes == Responses \cup {Raise}

\* ------------------------------------------------------------------------
\* converters (not part of the sources at hand; taken from the specification)
\* ------------------------------------------------------------------------

\* bri2st: linear rescale of brightness 1..254 to a percentage, kept here in
\* tenths of a percent, rounded to nearest.
bri2st(bri) == (bri * 1000 + 127) \div 254

\* kel2mired: mired = round(1000000 / kelvin)
kel2mired(k) == (1000000 + (k \div 2)) \div k

\* ------------------------------------------------------------------------
\* HueDimmLight and subclasses (node_types.py).  The node modelled is a
\* HueEColorLight: its command table holds every command of the four classes,
\* each bound to the same method as in the class that defines it.
\* ------------------------------------------------------------------------

\* int(round(transtime / 100)): Python 3 rounds halves to the even integer.
RoundDiv100(t) ==
    LET q == t \div 100
        r == t % 100
    IN  IF r < 50 THEN q
        ELSE IF r > 50 THEN q + 1
        ELSE IF q % 2 = 0 THEN q ELSE q + 1

\* all([list(resp.keys())[0] == 'success' for resp in responses[0]])
AnySuccess(resp) == \E i \in DOMAIN resp : resp[i] = "success"
AllSuccess(resp) == \A i \in DOMAIN resp : resp[i] = "success"

\* HueDimmLight.__init__: the fields of a freshly constructed node.
NewLight ==
    [on |-> None, st |-> None, brightness |-> None, saved_brightness |-> None,
     transitiontime |-> DEF_TRANSTIME, drvST |-> 0]

\* The result of a handler: the node afterwards, the payload handed to
\* hub.set_light (None when set_light was not called), and the value returned
\* ("True", "False", or "raised" when an exception left the handler).
Ret(self, payload, result) == [self |-> self, payload |-> payload, result |-> result]

\* HueDimmLight._updateInfo
updateInfoFrom(self, data) ==
    [self EXCEPT !.on = Some(data.on),
                 !.brightness = Some(data.bri),
                 !.st = Some(bri2st(data.bri)),
                 !.drvST = IF data.on THEN bri2st(data.bri) ELSE 0]

\* HueDimmLight._validateBri: returns <<node, brightness>>.  The low branch
\* assigns to a misspelt local (`brighness = 1`), so the value is unchanged.
validateBri(self, b) ==
    LET v == IF b > BRI_MAX THEN BRI_MAX ELSE b
    IN  <<[self EXCEPT !.st = Some(bri2st(v))], v>>

\* HueDimmLight._send_command, line 152-153: the transition time goes into
\* the payload, in deciseconds, unless it is the default.
WithTransition(command, transtime) ==
    IF transtime # DEF_TRANSTIME
    THEN ("transitiontime" :> RoundDiv100(transtime)) @@ command
    ELSE command

\* HueDimmLight._send_command, line 154: the command turns the light on.
TurnsOn_always(self, checkOn) == checkOn
TurnsOn(self, checkOn) == checkOn /\ self.on # Some(TRUE)

\* HueDimmLight._send_command, line 161: the saved brightness is dropped.
ClearSaved_keep(self) == self
ClearSaved(self) == [self EXCEPT !.saved_brightness = None]

\* HueDimmLight._send_command, line 163-164: the value returned for the
\* outcome of set_light; an exception leaves the handler.
CommandResult_any(resp) ==
    IF resp = Raise THEN "raised" ELSE IF AnySuccess(resp) THEN "True" ELSE "False"
CommandResult(resp) ==
    IF resp = Raise THEN "raised" ELSE IF AllSuccess(resp) THEN "True" ELSE "False"

\* HueDimmLight._send_command.  `command` is the payload dict so far (a
\* function from field names to values), `resp` the outcome of set_light.
send_command(self, command, transtime, checkOn, resp) ==
    LET c1 == WithTransition(command, transtime)
        turn == TurnsOn(self, checkOn)
        c2 == IF turn THEN ("on" :> TRUE) @@ c1 ELSE c1
        restore == turn /\ Truthy(self.saved_brightness)
        c3 == IF restore /\ "bri" \notin DOMAIN c2
              THEN ("bri" :> self.saved_brightness[1]) @@ c2 ELSE c2
        s1 == IF turn THEN [self EXCEPT !.on = Some(TRUE)] ELSE self
        s2 == IF restore THEN ClearSaved(s1) ELSE s1
    IN  Ret(s2, Some(c3), CommandResult(resp))

\* setDriver('ST', self.st), skipped when an exception left the handler.
ReportST(r) ==
    IF r.result = "raised" THEN r ELSE [r EXCEPT !.self.drvST = r.self.st[1]]

\* The empty payload dict: hue_command = {}
EmptyDict == [k \in {} |-> 0]

\* HueDimmLight.setBaseCtl, line 68-71: transition time of the command.
BaseTrans_configured(self, cmd) == self.transitiontime
BaseTrans(self, cmd) ==
    IF cmd = "DFON" \/ cmd = "DFOF" THEN 0 ELSE self.transitiontime

\* HueDimmLight.setBaseCtl, line 96-112: <<increment, transition time>>.
Increment(cmd, b, trans) ==
    CASE cmd = "BRT" ->
           <<IF b + BRT_INCREMENT > BRI_MAX THEN BRI_MAX - b ELSE BRT_INCREMENT, trans>>
      [] cmd = "DIM" ->
           <<IF b - BRT_INCREMENT < BRI_MIN THEN BRI_MIN - b ELSE -BRT_INCREMENT, trans>>
      [] cmd = "FDUP" -> <<BRI_MAX - b, FADE_TRANSTIME>>
      [] cmd = "FDDOWN" -> <<BRI_MIN - b, FADE_TRANSTIME>>
      [] OTHER -> <<0, trans>>

OnCmds == {"DON", "DFON"}
OffCmds == {"DOF", "DFOF"}
StepCmds == {"BRT", "DIM", "FDUP", "FDDOWN", "FDSTOP"}
BaseCmds == OnCmds \cup OffCmds \cup StepCmds

\* HueDimmLight.setBaseCtl.  `val` is command.get('value'): None or the
\* integer int() reads from the text the controller delivers (a delivered
\* value is a non-empty text, so `if val:` is true for it).
setBaseCtl(self, cmd, val, resp) ==
    LET trans == BaseTrans(self, cmd)
    IN  IF cmd \in OnCmds THEN
            LET s1 == [self EXCEPT !.on = Some(FALSE)]
                vb == validateBri(s1, val[1])
                s2 == IF val # None
                      THEN [vb[1] EXCEPT !.brightness = Some(vb[2])]
                      ELSE s1
                hc == IF val # None THEN ("bri" :> vb[2]) ELSE EmptyDict
                s3 == [s2 EXCEPT !.st = Some(bri2st(s2.brightness[1]))]
            IN  ReportST(send_command(s3, hc, trans, TRUE, resp))
        ELSE IF cmd \in OffCmds THEN
            LET s1 == [self EXCEPT !.on = Some(FALSE), !.st = Some(0)]
                r == send_command(s1, ("on" :> FALSE), trans, FALSE, resp)
                s2 == IF trans # DEF_TRANSTIME
                      THEN [r.self EXCEPT !.saved_brightness = r.self.brightness]
                      ELSE r.self
            IN  IF r.result = "raised" THEN r ELSE ReportST([r EXCEPT !.self = s2])
        ELSE
            LET b == self.brightness[1]
                it == Increment(cmd, b, trans)
                s1 == [self EXCEPT !.brightness = Some(b + it[1]),
                                   !.st = Some(bri2st(b + it[1]))]
            IN  ReportST(send_command(s1, ("bri_inc" :> it[1]), it[2], TRUE, resp))

\* HueDimmLight.setBrightness
setBrightness(self, val, resp) ==
    LET vb == validateBri(self, val)
        s1 == [vb[1] EXCEPT !.brightness = Some(vb[2]), !.drvST = vb[1].st[1]]
    IN  send_command(s1, ("bri" :> vb[2]), s1.transitiontime, TRUE, resp)

\* HueDimmLight.setTransition
setTransition(self, val) ==
    Ret([self EXCEPT !.transitiontime = val], None, "True")

HUE_ALERTS == <<"none", "select", "lselect">>
HUE_EFFECTS == <<"none", "colorloop">>

\* HueDimmLight.setAlert.  `value` is the 1-based command value; Python
\* indexes the list with value - 1, which is position `value` here.
setAlert(self, value, resp) ==
    send_command(self, ("alert" :> HUE_ALERTS[value]), self.transitiontime, TRUE, resp)

\* HueWhiteLight.setCt, HueEColorLight.setCt
setCt(self, kelvin, resp) ==
    send_command(self, ("ct" :> kel2mired(kelvin)), self.transitiontime, TRUE, resp)

\* HueWhiteLight.setCtBri, HueEColorLight.setCtBri
setCtBri(self, kelvin, bri, resp) ==
    LET vb == validateBri(self, bri)
        s1 == [vb[1] EXCEPT !.brightness = Some(vb[2]), !.drvST = vb[1].st[1]]
    IN  send_command(s1, ("ct" :> kel2mired(kelvin)) @@ ("bri" :> vb[2]),
                     s1.transitiontime, TRUE, resp)

\* HueColorLight.setColorRGB, setColorXY, setColorHSB, line 257/271/305: the
\* transition time of these commands is the D.uom42 field of the command.
QueryTrans_configured(self, dur) == self.transitiontime
QueryTrans(self, dur) == dur

\* HueColorLight.setColorRGB.  The chromaticity RGB_2_xy computes is kept as
\* the tagged colour it is computed from.
setColorRGB(self, rgb, bri, dur, resp) ==
    LET vb == validateBri(self, bri)
        s1 == [vb[1] EXCEPT !.brightness = Some(vb[2]), !.drvST = vb[1].st[1]]
    IN  send_command(s1, ("xy" :> <<"RGB_2_xy", rgb>>) @@ ("bri" :> vb[2]),
                     QueryTrans(s1, dur), TRUE, resp)

\* HueColorLight.setColorXY
setColorXY(self, xy, bri, dur, resp) ==
    LET vb == validateBri(self, bri)
        s1 == [vb[1] EXCEPT !.brightness = Some(vb[2]), !.drvST = vb[1].st[1]]
    IN  send_command(s1, ("xy" :> <<"xy", xy>>) @@ ("bri" :> vb[2]),
                     QueryTrans(s1, dur), TRUE, resp)

\* HueColorLight.setColor (c_id is the palette index color_xy looks up)
setColor(self, c_id, resp) ==
    send_command(self, ("xy" :> <<"color_xy", c_id>>), self.transitiontime, TRUE, resp)

\* HueColorLight.setHue
setHue(self, hue, resp) ==
    send_command(self, ("hue" :> hue), self.transitiontime, TRUE, resp)

\* HueColorLight.setSat
setSat(self, sat, resp) ==
    send_command(self, ("sat" :> sat), self.transitiontime, TRUE, resp)

\* HueColorLight.setColorHSB
setColorHSB(self, hue, sat, bri, dur, resp) ==
    LET vb == validateBri(self, bri)
        s1 == [vb[1] EXCEPT !.brightness = Some(vb[2]), !.drvST = vb[1].st[1]]
    IN  send_command(s1, ("hue" :> hue) @@ ("sat" :> sat) @@ ("bri" :> vb[2]),
                     QueryTrans(s1, dur), TRUE, resp)

\* HueColorLight.setEffect.  `value` is the 1-based command value.
setEffect(self, value, resp) ==
    send_command(self, ("effect" :> HUE_EFFECTS[value]), self.transitiontime, TRUE, resp)

\* Values of the fields that the claims do not depend on.
AlertInputs == {2}
EffectInputs == {2}
KelvinInputs == {2700}
HueInputs == {200}
SatInputs == {100}
ColorIdInputs == {3}
RgbInputs == {<<255, 0, 0>>}
XyInputs == {<<6750, 3220>>}

\* ------------------------------------------------------------------------
\* State
\* ------------------------------------------------------------------------

VARIABLES
    light,      \* a HueEColorLight node: its fields, and its ST driver
    ncmds,      \* handlers run so far
    faults,     \* set_light calls that did not succeed in full so far
    lastCmd,    \* history: the last handler run, [cmd, value, dur]
    onBefore,   \* history: the node's `on` before the last handler
    payload,    \* history: payload the last handler gave set_light, or None
    response,   \* history: outcome of that set_light call
    result,     \* history: value the last handler returned
    pendingOff, \* history: None, or [bri, returned] of the last off command
                \* with a non-default transition time since which no payload
                \* carried on:true
    offBri      \* history: None, or self.brightness when the most recent
                \* off command arrived

lightVars ==
    <<light, ncmds, faults, lastCmd, onBefore, payload, response, result, pendingOff,
      offBri>>

\* The state of the controller (Control in hue.py) and of its bridges.
\* The callbacks the host runs on threads of their own: the
\* configuration-changed handler, the DISCOVER command and the poll.
Discoverers == {"handler", "command"}
Threads == Discoverers \cup {"poll"}

VARIABLES
    mode,          \* bridges: reachability and link button of each bridge
    emptyGroups,   \* bridges: the groups that have no member light
    bare,          \* bridges: the bridges no light is paired with
    renumbered,    \* bridges: the bridges that gave their lights other indices
    anomalous,     \* bridges: the bridges that list an entry without hardware id
    envChanges,    \* changes of the bridges so far
    params_bridges, \* self.parameters['bridges']: None or the address list
    cust_bridges,  \* self.cust_data['bridges']: None or a list of [ip, user]
    hub,           \* self.hub: address -> TRUE (a session) or FALSE (None)
    hubOrder,      \* the keys of self.hub in insertion order
    lights,        \* self.lights: address -> None or the lights pulled
    groups,        \* self.groups
    scenes,        \* self.scenes
    scene_lookup,  \* self.scene_lookup
    discovery,     \* self.discovery
    nodes,         \* the nodes the host tracks: address -> node
    notices,       \* self.notices
    dpc,           \* the thread running discover(): its position
    todo,          \* the hubs discover() still has to visit
    cur,           \* the hub _discover is working on
    nconnects,     \* connect() runs so far
    npasses,       \* discovery passes started so far
    passWorld,     \* history: bridges and hubs when the running pass started
    added,         \* history: addresses addNode was called for in the pass
    removed,       \* history: addresses delNode was called for in the pass
    lastPass,      \* history: None or the summary of the last completed pass
    lastConnect,   \* history: None or what the last connect() tried and saved
    tpc,           \* concurrent callbacks: the position of each thread
    ttodo,         \* concurrent callbacks: the hubs a thread still has to visit
    tcur,          \* concurrent callbacks: the hub a thread is working on
    truns          \* concurrent callbacks: the runs each thread has started

raceVars == <<tpc, ttodo, tcur, truns>>
\* What the bridges have paired and how they list it.
invVars == <<bare, renumbered, anomalous>>
hubVars ==
    <<raceVars, mode, emptyGroups, envChanges, params_bridges, cust_bridges, hub, hubOrder,
      lights, groups, scenes, scene_lookup, discovery, nodes, notices, dpc, todo,
      cur, nconnects, npasses, passWorld, added, removed, lastPass, invVars,
      lastConnect>>

Cmd(c, v, d) == [cmd |-> c, value |-> v, dur |-> d]

\* The command turned the light on: its payload carries on:true.
PayloadOn(p) == p # None /\ "on" \in DOMAIN p[1] /\ p[1].on = TRUE

LightInit ==
    /\ light = NewLight
    /\ ncmds = 0
    /\ faults = 0
    /\ lastCmd = Cmd("__init__", None, None)
    /\ onBefore = None
    /\ payload = None
    /\ response = None
    /\ result = "None"
    /\ pendingOff = None
    /\ offBri = None

\* Bookkeeping shared by all handlers: `c` is the command, `r` the handler's
\* result, `resp` the outcome of set_light (None when there was no call).
Fault(r, resp) == r.payload # None /\ resp # <<"success">>
Handled(c, r, resp) ==
    /\ ncmds < MaxCmds
    /\ ncmds' = ncmds + 1
    /\ Fault(r, resp) => faults < MaxFaults
    /\ faults' = IF Fault(r, resp) THEN faults + 1 ELSE faults
    /\ lastCmd' = c
    /\ onBefore' = light.on
    /\ light' = r.self
    /\ payload' = r.payload
    /\ response' = IF r.payload = None THEN None ELSE Some(resp)
    /\ result' = r.result
    /\ pendingOff' =
         IF c.cmd \in OffCmds /\ BaseTrans(light, c.cmd) # DEF_TRANSTIME
         THEN Some([bri |-> light.brightness[1], returned |-> r.result # "raised"])
         ELSE IF PayloadOn(r.payload) THEN None
         ELSE pendingOff
    /\ offBri' = IF c.cmd \in OffCmds THEN light.brightness ELSE offBri
    /\ UNCHANGED hubVars

\* The host starts the node when it is added (start() calls query()), and
\* delivers commands and refreshes to started nodes only.
Started == light.brightness # None

\* HueDimmLight.start: the first query().
Start ==
    /\ ~Started
    /\ \E data \in LightData : light' = updateInfoFrom(light, data)
    /\ lastCmd' = Cmd("start", None, None)
    /\ UNCHANGED <<ncmds, faults, onBefore, payload, response, result, pendingOff,
                   offBri, hubVars>>

\* HueDimmLight.query: a fresh read from the bridge.
Query ==
    /\ Started
    /\ \E data \in LightData :
        Handled(Cmd("QUERY", None, None),
                Ret(updateInfoFrom(light, data), None, "None"), Raise)

\* HueDimmLight.updateInfo: read from the snapshot the controller polled.
UpdateInfo ==
    /\ Started
    /\ \E data \in LightData :
        Handled(Cmd("updateInfo", None, None),
                Ret(updateInfoFrom(light, data), None, "None"), Raise)

\* DON / DFON, with or without a value
TurnOn ==
    /\ Started
    /\ \E c \in OnCmds, v \in {None} \cup {Some(b) : b \in BriInputs}, resp \in Outcomes :
        Handled(Cmd(c, v, None), setBaseCtl(light, c, v, resp), resp)

\* DOF / DFOF
TurnOff ==
    /\ Started
    /\ \E c \in OffCmds, resp \in Outcomes :
        Handled(Cmd(c, None, None), setBaseCtl(light, c, None, resp), resp)

\* BRT / DIM / FDUP / FDDOWN / FDSTOP
StepBri ==
    /\ Started
    /\ \E c \in StepCmds, resp \in Outcomes :
        Handled(Cmd(c, None, None), setBaseCtl(light, c, None, resp), resp)

SetBri ==
    /\ Started
    /\ \E b \in BriInputs, resp \in Outcomes :
        Handled(Cmd("SET_BRI", Some(b), None), setBrightness(light, b, resp), resp)

SetDur ==
    /\ Started
    /\ \E d \in DurInputs :
        Handled(Cmd("SET_DUR", Some(d), None), setTransition(light, d), Raise)

SetAlert ==
    /\ Started
    /\ \E a \in AlertInputs, resp \in Outcomes :
        Handled(Cmd("SET_ALERT", Some(a), None), setAlert(light, a, resp), resp)

SetKel ==
    /\ Started
    /\ \E k \in KelvinInputs, resp \in Outcomes :
        Handled(Cmd("SET_KEL", Some(k), None), setCt(light, k, resp), resp)

SetCtBri ==
    /\ Started
    /\ \E k \in KelvinInputs, b \in BriInputs, resp \in Outcomes :
        Handled(Cmd("SET_CTBR", Some(b), None), setCtBri(light, k, b, resp), resp)

SetColorRGB ==
    /\ Started
    /\ \E rgb \in RgbInputs, b \in BriInputs, d \in DurInputs, resp \in Outcomes :
        Handled(Cmd("SET_COLOR_RGB", Some(b), Some(d)),
                setColorRGB(light, rgb, b, d, resp), resp)

SetColorXY ==
    /\ Started
    /\ \E xy \in XyInputs, b \in BriInputs, d \in DurInputs, resp \in Outcomes :
        Handled(Cmd("SET_COLOR_XY", Some(b), Some(d)),
                setColorXY(light, xy, b, d, resp), resp)

SetColorHSB ==
    /\ Started
    /\ \E h \in HueInputs, sa \in SatInputs, b \in BriInputs, d \in DurInputs,
          resp \in Outcomes :
        Handled(Cmd("SET_HSB", Some(b), Some(d)),
                setColorHSB(light, h, sa, b, d, resp), resp)

SetColor ==
    /\ Started
    /\ \E c \in ColorIdInputs, resp \in Outcomes :
        Handled(Cmd("SET_COLOR", Some(c), None), setColor(light, c, resp), resp)

SetHue ==
    /\ Started
    /\ \E h \in HueInputs, resp \in Outcomes :
        Handled(Cmd("SET_HUE", Some(h), None), setHue(light, h, resp), resp)

SetSat ==
    /\ Started
    /\ \E sa \in SatInputs, resp \in Outcomes :
        Handled(Cmd("SET_SAT", Some(sa), None), setSat(light, sa, resp), resp)

SetEffect ==
    /\ Started
    /\ \E e \in EffectInputs, resp \in Outcomes :
        Handled(Cmd("SET_EFFECT", Some(e), None), setEffect(light, e, resp), resp)

LightNext ==
    \/ Start \/ Query \/ UpdateInfo
    \/ TurnOn \/ TurnOff \/ StepBri \/ SetBri \/ SetDur \/ SetAlert
    \/ SetKel \/ SetCtBri
    \/ SetColorRGB \/ SetColorXY \/ SetColorHSB
    \/ SetColor \/ SetHue \/ SetSat \/ SetEffect

\* ------------------------------------------------------------------------
\* Properties of the light node
\* ------------------------------------------------------------------------

\* Commands that carry a brightness of their own.
BriCmds == {"SET_BRI", "SET_CTBR", "SET_HSB", "SET_COLOR_RGB", "SET_COLOR_XY"}
CarriesBri(c) == c.cmd \in BriCmds \/ (c.cmd \in OnCmds /\ c.value # None)
\* Commands whose transition time is the D.uom42 field they carry.
QueryDurCmds == {"SET_HSB", "SET_COLOR_RGB", "SET_COLOR_XY"}
FastCmds == {"DFON", "DFOF"}
FadeCmds == {"FDUP", "FDDOWN"}

HasBri(p) == p # None /\ "bri" \in DOMAIN p[1]
\* The payload carries a bri that the command did not specify.
Unsolicited == HasBri(payload) /\ ~CarriesBri(lastCmd)
Clamp(b) == IF b > 254 THEN 254 ELSE IF b < 1 THEN 1 ELSE b
\* Payload p applies transition time t (ms): the bridge's default is 400 ms,
\* any other time is sent in deciseconds.
Applies(p, t) ==
    IF t = 400 THEN "transitiontime" \notin DOMAIN p
    ELSE "transitiontime" \in DOMAIN p /\ p.transitiontime = RoundDiv100(t)

\* C1: when a DON/DFON without a value is the first command to turn the light
\* on after an off command with a non-default transition time (that reached
\* the bridge) issued at local brightness b, its payload carries on:true and
\* bri = b.
C1_RestoreAfterOff ==
    [][(/\ ncmds' = ncmds + 1
        /\ lastCmd'.cmd \in OnCmds
        /\ lastCmd'.value = None
        /\ pendingOff # None
        /\ pendingOff[1].returned)
       => (/\ PayloadOn(payload')
           /\ HasBri(payload')
           /\ payload'[1].bri = pendingOff[1].bri)]_lightVars

\* C2: the remembered brightness is one-shot: once a command has turned the
\* light on, nothing is remembered until the next off command with a
\* non-default transition time, and a payload carries a bri its command did
\* not specify only if such an off command was issued since the last command
\* that turned the light on.
C2_OneShot ==
    [][ncmds' = ncmds + 1
       => (/\ (PayloadOn(payload') => ~Truthy(light'.saved_brightness))
           /\ (pendingOff' = None => ~Truthy(light'.saved_brightness))
           /\ (Unsolicited' => pendingOff # None))]_lightVars
\* A DON without a value re-applied the remembered brightness and dropped it.
C2_Witness ==
    /\ lastCmd.cmd = "DON"
    /\ lastCmd.value = None
    /\ HasBri(payload)
    /\ PayloadOn(payload)
    /\ light.saved_brightness = None

\* C3: the local brightness and every bri in a payload lie in 1..254, and a
\* brightness given by a command is clamped into that range.
C3_BrightnessClamped ==
    /\ Started => light.brightness[1] \in 1..254
    /\ HasBri(payload) => payload[1].bri \in 1..254
    /\ (HasBri(payload) /\ CarriesBri(lastCmd))
         => payload[1].bri = Clamp(lastCmd.value[1])

\* C4: the status level reported (driver ST) is 0 exactly when the cached
\* on-state is false.
C4_StatusZeroIffOff ==
    Started => (light.drvST = 0 <=> light.on = Some(FALSE))

\* C5: a DON/DFON payload always carries on:true; the payload of any other
\* command that can turn the light on carries on:true exactly when the cached
\* on-state was not true before the command; afterwards the cached on-state
\* is true.
C5_OnFlag ==
    (payload # None /\ lastCmd.cmd \notin OffCmds)
    => (/\ lastCmd.cmd \in OnCmds => PayloadOn(payload)
        /\ lastCmd.cmd \notin OnCmds => (PayloadOn(payload) <=> onBefore # Some(TRUE))
        /\ light.on = Some(TRUE))
\* A DON for a light cached as on still sent on:true.
C5_Witness ==
    /\ lastCmd.cmd = "DON"
    /\ onBefore = Some(TRUE)
    /\ PayloadOn(payload)

\* C6: a command whose set_light call returned gives True exactly when every
\* entry of the response is a success entry.
C6_ResultAllSuccess ==
    (payload # None /\ response[1] # Raise)
    => (/\ result \in {"True", "False"}
        /\ result = "True" <=> \A i \in DOMAIN response[1] : response[1][i] = "success")
\* A response with a success entry and an error entry made the command fail.
C6_Witness ==
    /\ payload # None
    /\ response = Some(<<"success", "error">>)
    /\ result = "False"

\* C7: DFON and DFOF send transitiontime 0, FDUP and FDDOWN send
\* transitiontime 40, whatever transition time is configured.
C7_FastAndFade ==
    payload # None
    => (/\ lastCmd.cmd \in FastCmds
             => ("transitiontime" \in DOMAIN payload[1] /\ payload[1].transitiontime = 0)
        /\ lastCmd.cmd \in FadeCmds
             => ("transitiontime" \in DOMAIN payload[1] /\ payload[1].transitiontime = 40))
\* A fast off sent transitiontime 0 with another transition time configured.
C7_Witness ==
    /\ lastCmd.cmd = "DFOF"
    /\ light.transitiontime = 250
    /\ payload # None
    /\ payload[1].transitiontime = 0

\* C8 as claimed: every command but DFON, DFOF, FDUP, FDDOWN applies the
\* configured transition time.
C8_ConfiguredTransition ==
    (payload # None /\ lastCmd.cmd \notin FastCmds \cup FadeCmds)
    => Applies(payload[1], light.transitiontime)
\* C8 amended: SET_HSB, SET_COLOR_RGB and SET_COLOR_XY apply the transition
\* time carried in the command; every other command but DFON, DFOF, FDUP,
\* FDDOWN applies the configured transition time.
C8_TransitionByCommand ==
    (payload # None /\ lastCmd.cmd \notin FastCmds \cup FadeCmds)
    => IF lastCmd.cmd \in QueryDurCmds
       THEN Applies(payload[1], lastCmd.dur[1])
       ELSE Applies(payload[1], light.transitiontime)
\* SET_HSB sent its own duration, which differs from the configured one.
C8_Witness ==
    /\ lastCmd.cmd = "SET_HSB"
    /\ lastCmd.dur = Some(250)
    /\ light.transitiontime = 400
    /\ payload # None
    /\ "transitiontime" \in DOMAIN payload[1]
    /\ payload[1].transitiontime = 2

\* ------------------------------------------------------------------------
\* Control (hue.py): bridges, connect, discovery, polling
\* ------------------------------------------------------------------------

\* Bounds of the controller model
\* Number of changes of the bridges (reachability, group membership).
MaxEnvChanges == 1
\* Number of discovery passes started.
MaxPasses == 2
\* Number of connect() runs.
MaxConnects == 2

\* A bridge address is kept as the list hub_idx.split('.') yields.
BridgeA == <<"10", "0", "0", "1">>
BridgeB == <<"10", "0", "0", "11">>
Bridges == {BridgeA, BridgeB}

\* What a bridge reports.  Lights and scenes are fixed, the member lights of
\* a group change.  Each list is in the order the bridge reports it.
BridgeLights(h) ==
    IF h = BridgeA
    THEN <<[id |-> "1", uniqueid |-> <<"00:17:88:01:00:aa", "0b">>,
            type |-> "Extended color light"],
           [id |-> "2", uniqueid |-> <<"00:17:88:01:00:ab", "0b">>,
            type |-> "On/Off plug-in unit"]>>
    ELSE <<[id |-> "1", uniqueid |-> <<"00:17:88:01:00:ba", "0b">>,
            type |-> "Dimmable light"]>>
BridgeGroupIds(h) == IF h = BridgeA THEN <<"1", "12">> ELSE <<"2">>
BridgeScenes(h) ==
    IF h = BridgeA
    THEN <<[id |-> "sA1", group |-> Some("1"), name |-> "Relax"],
           [id |-> "sA2", group |-> Some("12"), name |-> "Read"],
           [id |-> "sA3", group |-> None, name |-> "Legacy"]>>
    ELSE <<[id |-> "sB1", group |-> Some("2"), name |-> "Dimmed"]>>
\* The bridges that may have no light paired.
BareableBridges == {BridgeB}
\* The groups whose member list may become empty.
EmptyableGroups == {<<BridgeA, "12">>, <<BridgeB, "2">>}

\* down: the bridge does not answer; locked: it answers, the link button is
\* not pressed; open: it answers and the link button is pressed.
Modes == {"down", "locked", "open"}

\* converters.id_2_addr (from the specification): the address is derived from
\* the hardware id alone; the separators of the id are dropped.
id_2_addr(uniqueid) == uniqueid[1] \o uniqueid[2]

\* Truth value of a pulled dict: None and the empty dict are false.
DictTruthy(x) == x # None /\ Len(x[1]) > 0

EmptyMap == [k \in {} |-> None]
\* d[k] = v for a dict kept as a function
Put(d, k, v) == (k :> v) @@ d
Get(d, k) == IF k \in DOMAIN d THEN d[k] ELSE None

\* -- the bridge session (phue.Bridge), an external collaborator -----------

\* The bridges that may give their lights other indices (the index of a
\* light is local to the bridge and does not outlive a new pairing).
RenumberBridges == {BridgeA}
\* The two lights of a bridge with their indices exchanged, in index order.
Reindexed(ls) ==
    IF Len(ls) = 2
    THEN <<[ls[2] EXCEPT !.id = ls[1].id], [ls[1] EXCEPT !.id = ls[2].id]>>
    ELSE ls
\* The bridges that may list an entry that has no 'uniqueid' key, and that
\* entry: data['uniqueid'] raises KeyError for it.
AnomalousBridges == {BridgeA}
AnomalousEntry == [id |-> "3", uniqueid |-> None, type |-> "Dimmable light"]
\* What get_light() of a bridge lists now.
Listing(h) ==
    LET ls == IF h \in renumbered THEN Reindexed(BridgeLights(h)) ELSE BridgeLights(h)
    IN  IF h \in anomalous THEN Append(ls, AnomalousEntry) ELSE ls

\* get_light(): None stands for any of the exceptions _get_lights catches.
PullLights(h) ==
    IF mode[h] = "down" THEN None
    ELSE IF h \in bare THEN Some(<< >>)
    ELSE Some(Listing(h))
GroupData(h, g) ==
    [id |-> g, lights |-> IF <<h, g>> \in emptyGroups THEN {} ELSE {"1"}]
PullGroups(h) ==
    IF mode[h] = "down" THEN None
    ELSE Some([i \in 1..Len(BridgeGroupIds(h)) |-> GroupData(h, BridgeGroupIds(h)[i])])
PullScenes(h) == IF mode[h] = "down" THEN None ELSE Some(BridgeScenes(h))

\* Control._get_lights / _get_groups / _get_scenes
get_lights(hb, h) == IF ~hb[h] THEN None ELSE PullLights(h)
get_groups(hb, h) == IF ~hb[h] THEN None ELSE PullGroups(h)
get_scenes(hb, h) == IF ~hb[h] THEN None ELSE PullScenes(h)

\* -- Control.connect -------------------------------------------------------

\* The credential a bridge hands out on registration (hub.username).
UserOf(h) == "user" \o h[Len(h)]

\* The address phue finds when none is given (hub_list = [None]).
AutoBridge == BridgeA

\* `bridges` is an insertion-ordered dict, kept as a list of [ip, user].
HasIp(bl, ip) == \E i \in 1..Len(bl) : bl[i].ip = ip
SetUser(bl, ip, user) ==
    IF HasIp(bl, ip)
    THEN [i \in 1..Len(bl) |-> IF bl[i].ip = ip THEN [ip |-> ip, user |-> user] ELSE bl[i]]
    ELSE Append(bl, [ip |-> ip, user |-> user])

\* phue.Bridge(hub_ip, hub_user): with a credential the session is set up
\* without contacting the bridge; without one the bridge is asked to
\* register, which needs it reachable and its link button pressed.
BridgeSession(ip, hub_user) ==
    IF hub_user # None THEN "ok"
    ELSE IF mode[ip] = "down" THEN "failed"
    ELSE IF mode[ip] = "locked" THEN "registration"
    ELSE "ok"

\* Line 117-148: one round of the loop over hub_list.  `c` holds hub,
\* hubOrder, lights, bridges, save_needed, notices and the list `tried` of the
\* addresses phue.Bridge was called with; hub_ip is None or an address.
ConnectOne(c, hub_ip) ==
    LET known == hub_ip # None /\ HasIp(c.bridges, hub_ip[1])
        hub_user == IF known
                    THEN Some((CHOOSE b \in {c.bridges[i] : i \in 1..Len(c.bridges)} :
                                  b.ip = hub_ip[1]).user)
                    ELSE None
        c0 == [c EXCEPT !.tried = Append(c.tried, hub_ip)]
        c1 == IF known THEN c0 ELSE [c0 EXCEPT !.save_needed = TRUE]
        ip == IF hub_ip = None THEN AutoBridge ELSE hub_ip[1]
        session == BridgeSession(ip, hub_user)
        hub1 == Put(c1.hub, ip, TRUE)
        order1 == IF ip \in DOMAIN c1.hub THEN c1.hubOrder ELSE Append(c1.hubOrder, ip)
        pulled == get_lights(hub1, ip)
        username == IF hub_user # None THEN hub_user[1] ELSE UserOf(ip)
    IN  IF session = "registration" THEN [c1 EXCEPT !.notices = TRUE]
        ELSE IF session = "failed" THEN c1
        ELSE IF DictTruthy(pulled)
        THEN [c1 EXCEPT !.hub = hub1, !.hubOrder = order1,
                        !.lights = Put(c1.lights, ip, pulled),
                        !.bridges = SetUser(c1.bridges, ip, username)]
        ELSE [c1 EXCEPT !.hub = Put(c1.hub, ip, FALSE), !.hubOrder = order1,
                        !.lights = Put(c1.lights, ip, pulled)]

RECURSIVE ConnectLoop(_, _)
ConnectLoop(c, hub_list) ==
    IF hub_list = << >> THEN c
    ELSE ConnectLoop(ConnectOne(c, Head(hub_list)), Tail(hub_list))

\* Control.connect: the state it leaves, as a record of hub, hubOrder,
\* lights, bridges, save_needed, notices.
\* Line 89-99: the credentials persisted, as connect reads them.
PersistedBridges == IF cust_bridges # None THEN cust_bridges[1] ELSE << >>
\* Line 101-115: the addresses to connect to.
hub_list ==
    IF params_bridges # None
    THEN [i \in 1..Len(params_bridges[1]) |-> Some(params_bridges[1][i])]
    ELSE IF Len(PersistedBridges) > 0
    THEN [i \in 1..Len(PersistedBridges) |-> Some(PersistedBridges[i].ip)]
    ELSE <<None>>
connect ==
    ConnectLoop([hub |-> hub, hubOrder |-> hubOrder, lights |-> lights,
                 bridges |-> PersistedBridges, save_needed |-> FALSE,
                 notices |-> notices, tried |-> << >>], hub_list)

\* -- Control.discover / Control._discover -----------------------------------

\* Line 184-197: the node class for a light type, None for an unsupported one.
LightClass(type) ==
    CASE type = "Extended color light" -> Some("HueEColorLight")
      [] type = "Color light" -> Some("HueColorLight")
      [] type = "Color temperature light" -> Some("HueWhiteLight")
      [] type = "Dimmable light" -> Some("HueDimmLight")
      [] OTHER -> None

\* Line 179-197: the loop over the lights pulled.  `a` holds nodes, added
\* and raised: an entry without 'uniqueid' raises KeyError at line 180, which
\* ends the loop and leaves _discover and discover.
RECURSIVE AddLights(_, _, _)
AddLights(a, h, ls) ==
    IF ls = << >> THEN a
    ELSE IF Head(ls).uniqueid = None THEN [a EXCEPT !.raised = TRUE]
    ELSE LET data == Head(ls)
             address == id_2_addr(data.uniqueid)
             cls == LightClass(data.type)
             a1 == IF address \notin DOMAIN a.nodes /\ cls # None
                   THEN [a EXCEPT !.nodes = Put(a.nodes, address,
                                                [cls |-> cls[1], id |-> data.id, hub |-> h]),
                                  !.added = Append(a.added, address)]
                   ELSE a
         IN  AddLights(a1, h, Tail(ls))

\* int(group_id)
IntOf(gid) == CASE gid = "1" -> 1 [] gid = "2" -> 2 [] gid = "12" -> 12 [] OTHER -> 0

\* Line 213-216: the address of a group node.
GroupAddress(hb, h, group_id) ==
    IF Cardinality(DOMAIN hb) > 1
    THEN "huegrp" \o h[Len(h)] \o group_id
    ELSE "huegrp" \o group_id

\* Line 226-232: the scenes of a group are appended to the lookup.
RECURSIVE AddScenes(_, _, _, _, _)
AddScenes(lookup, h, group_id, scene_idx, sc) ==
    IF sc = << >> THEN lookup
    ELSE LET scene_data == Head(sc)
             hit == scene_data.group # None /\ scene_data.group[1] = group_id
         IN  AddScenes(IF hit
                       THEN Append(lookup, [hub |-> h, group |-> IntOf(group_id),
                                            idx |-> scene_idx, id |-> scene_data.id,
                                            name |-> scene_data.name])
                       ELSE lookup,
                       h, group_id, IF hit THEN scene_idx + 1 ELSE scene_idx, Tail(sc))

\* Line 222-236: one group.  `a` holds nodes, lookup, added, removed.
DiscoverGroup(a, hb, h, sc, data) ==
    LET address == GroupAddress(hb, h, data.id)
    IN  IF data.lights # {}
        THEN IF address \notin DOMAIN a.nodes
             THEN [a EXCEPT !.nodes = Put(a.nodes, address,
                                          [cls |-> "HueGroup", id |-> data.id, hub |-> h]),
                            !.added = Append(a.added, address),
                            !.lookup = IF DictTruthy(sc)
                                       THEN AddScenes(a.lookup, h, data.id, 0, sc[1])
                                       ELSE a.lookup]
             ELSE a
        ELSE IF address \in DOMAIN a.nodes
             THEN [a EXCEPT !.nodes = [x \in DOMAIN a.nodes \ {address} |-> a.nodes[x]],
                            !.removed = Append(a.removed, address)]
             ELSE a

\* Line 211-236: the loop over the groups pulled.
RECURSIVE DiscoverGroups(_, _, _, _, _)
DiscoverGroups(a, hb, h, sc, gs) ==
    IF gs = << >> THEN a
    ELSE DiscoverGroups(DiscoverGroup(a, hb, h, sc, Head(gs)), hb, h, sc, Tail(gs))

\* -- State machine of the controller ----------------------------------------

\* The bridges and the hubs, as a discovery pass sees them.
World ==
    [changes |-> envChanges, mode |-> mode, emptyGroups |-> emptyGroups,
     hub |-> hub, hubOrder |-> hubOrder]

\* Control.__init__, with nothing persisted yet.
ControlInit ==
    /\ envChanges = 0
    /\ cust_bridges = None
    /\ hub = EmptyMap
    /\ hubOrder = << >>
    /\ lights = EmptyMap
    /\ groups = EmptyMap
    /\ scenes = EmptyMap
    /\ scene_lookup = << >>
    /\ discovery = FALSE
    /\ nodes = EmptyMap
    /\ notices = FALSE
    /\ dpc = "idle"
    /\ todo = << >>
    /\ cur = BridgeA
    /\ nconnects = 0
    /\ npasses = 0
    /\ passWorld = None
    /\ added = << >>
    /\ removed = << >>
    /\ lastPass = None
    /\ lastConnect = None
    /\ tpc = [t \in Threads |-> "idle"]
    /\ ttodo = [t \in Threads |-> << >>]
    /\ tcur = [t \in Threads |-> BridgeA]
    /\ truns = [t \in Threads |-> 0]

HubInit ==
    /\ mode \in [Bridges -> Modes]
    /\ emptyGroups \in SUBSET EmptyableGroups
    /\ bare \in SUBSET BareableBridges
    /\ renumbered = {}
    /\ anomalous = {}
    /\ params_bridges \in {Some(<<BridgeA>>), Some(<<BridgeA, BridgeB>>)}
    /\ ControlInit

\* The bridges change: one becomes unreachable or reachable, its link button
\* is pressed or released, a group loses its lights or gets one.
EnvChange ==
    /\ envChanges < MaxEnvChanges
    /\ envChanges' = envChanges + 1
    /\ \/ \E h \in Bridges, m \in Modes :
            /\ m # mode[h]
            /\ mode' = [mode EXCEPT ![h] = m]
            /\ UNCHANGED emptyGroups
       \/ \E g \in EmptyableGroups :
            /\ emptyGroups' = IF g \in emptyGroups THEN emptyGroups \ {g}
                              ELSE emptyGroups \cup {g}
            /\ UNCHANGED mode
    /\ UNCHANGED <<lightVars, raceVars, invVars, lastConnect,
                   params_bridges, cust_bridges, hub, hubOrder, lights, groups,
                   scenes,
                   scene_lookup, discovery, nodes, notices, dpc, todo, cur, nconnects,
                   npasses, passWorld, added, removed, lastPass>>

\* Control.discover, line 160-161: the lookup is emptied and the loop over
\* the hubs starts.  `hb` and `order` are self.hub as the caller left it.
DiscoverBegin(hb, order) ==
    /\ npasses < MaxPasses
    /\ npasses' = npasses + 1
    /\ scene_lookup' = << >>
    /\ todo' = order
    /\ dpc' = "enter"
    /\ passWorld' = Some([World EXCEPT !.hub = hb, !.hubOrder = order])
    /\ added' = << >>
    /\ removed' = << >>

\* What connect() leaves behind, `c` being the record `connect` yields.
Connected(c) ==
    /\ nconnects' = nconnects + 1
    /\ hub' = c.hub
    /\ hubOrder' = c.hubOrder
    /\ lights' = c.lights
    /\ notices' = c.notices
    /\ cust_bridges' = IF c.save_needed /\ Len(c.bridges) > 0
                       THEN Some(c.bridges) ELSE cust_bridges
    /\ lastConnect' = Some([tried |-> c.tried,
                             wrote |-> c.save_needed /\ Len(c.bridges) > 0])

\* Control.parameter_handler: connect(), then discover().
ParameterHandler ==
    /\ dpc = "idle"
    /\ nconnects < MaxConnects
    /\ LET c == connect
       IN  /\ Connected(c)
           /\ DiscoverBegin(c.hub, c.hubOrder)
    /\ UNCHANGED <<lightVars, raceVars, invVars,
                   mode, emptyGroups, envChanges, params_bridges, groups, scenes,
                   discovery, nodes, cur, lastPass>>

\* The DISCOVER command: Control.discover.
DiscoverCmd ==
    /\ dpc = "idle"
    /\ DiscoverBegin(hub, hubOrder)
    /\ UNCHANGED <<lightVars, raceVars, invVars, lastConnect,
                   mode, emptyGroups, envChanges, params_bridges, cust_bridges, hub,
                   hubOrder, lights, groups, scenes, discovery, nodes, notices, cur,
                   nconnects, lastPass>>

\* Control._discover, line 166-168: the guard, and the flag is raised.
DiscoverEnter ==
    /\ dpc = "enter"
    /\ todo # << >>
    /\ IF ~hub[Head(todo)] \/ discovery
       THEN /\ todo' = Tail(todo)
            /\ UNCHANGED <<discovery, cur, dpc>>
       ELSE /\ discovery' = TRUE
            /\ cur' = Head(todo)
            /\ dpc' = "lights"
            /\ UNCHANGED todo
    /\ UNCHANGED <<lightVars, raceVars, invVars, lastConnect,
                   mode, emptyGroups, envChanges, params_bridges, cust_bridges, hub,
                   hubOrder, lights, groups, scenes, scene_lookup, nodes, notices,
                   nconnects, npasses, passWorld, added, removed, lastPass>>

\* Control._discover, line 171-197: the lights are pulled and their nodes added.
DiscoverLights ==
    /\ dpc = "lights"
    /\ LET pulled == get_lights(hub, cur)
           a == AddLights([nodes |-> nodes, added |-> added, raised |-> FALSE],
                          cur, pulled[1])
       IN  /\ lights' = Put(lights, cur, pulled)
           /\ IF ~DictTruthy(pulled)
              THEN /\ discovery' = FALSE
                   /\ dpc' = "enter"
                   /\ todo' = Tail(todo)
                   /\ UNCHANGED <<nodes, added>>
              ELSE IF a.raised
              THEN /\ nodes' = a.nodes
                   /\ added' = a.added
                   /\ dpc' = "idle"
                   /\ todo' = << >>
                   /\ UNCHANGED discovery
              ELSE /\ nodes' = a.nodes
                   /\ added' = a.added
                   /\ dpc' = "groups"
                   /\ UNCHANGED <<discovery, todo>>
    /\ UNCHANGED <<lightVars, raceVars, invVars, lastConnect,
                   mode, emptyGroups, envChanges, params_bridges, cust_bridges, hub,
                   hubOrder, groups, scenes, scene_lookup, notices, cur, nconnects,
                   npasses, passWorld, removed, lastPass>>

\* Control._discover, line 199-240: scenes and groups are pulled, the group
\* nodes added or removed, the flag is lowered.
DiscoverGroupsStep ==
    /\ dpc = "groups"
    /\ LET sc == get_scenes(hub, cur)
           gs == get_groups(hub, cur)
           a == DiscoverGroups([nodes |-> nodes, lookup |-> scene_lookup,
                                added |-> added, removed |-> removed],
                               hub, cur, sc, gs[1])
       IN  /\ scenes' = Put(scenes, cur, sc)
           /\ groups' = Put(groups, cur, gs)
           /\ IF ~DictTruthy(gs)
              THEN UNCHANGED <<nodes, scene_lookup, added, removed>>
              ELSE /\ nodes' = a.nodes
                   /\ scene_lookup' = a.lookup
                   /\ added' = a.added
                   /\ removed' = a.removed
    /\ discovery' = FALSE
    /\ dpc' = "enter"
    /\ todo' = Tail(todo)
    /\ UNCHANGED <<lightVars, raceVars, invVars, lastConnect,
                   mode, emptyGroups, envChanges, params_bridges, cust_bridges, hub,
                   hubOrder, lights, notices, cur, nconnects, npasses, passWorld,
                   lastPass>>

\* Control.discover returns: every hub was visited.
PassSummary(p) ==
    [world |-> p.world, steady |-> p.steady, nodes |-> p.nodes, lookup |-> p.lookup]
DiscoverReturn ==
    /\ dpc = "enter"
    /\ todo = << >>
    /\ dpc' = "idle"
    /\ lastPass' = Some([world |-> World,
                         steady |-> passWorld = Some(World),
                         nodes |-> DOMAIN nodes,
                         lookup |-> scene_lookup,
                         added |-> added,
                         removed |-> removed,
                         prev |-> IF lastPass = None THEN None
                                  ELSE Some(PassSummary(lastPass[1]))])
    /\ UNCHANGED <<lightVars, raceVars, invVars, lastConnect,
                   mode, emptyGroups, envChanges, params_bridges, cust_bridges, hub,
                   hubOrder, lights, groups, scenes, scene_lookup, discovery, nodes,
                   notices, todo, cur, nconnects, npasses, passWorld, added, removed>>

\* Control.updateNodes for one hub of the poll loop: lights and groups are
\* pulled again unless the hub has no session or a discovery is running.
\* (The refresh of the light nodes is UpdateInfo above.)
updateNodes(h) ==
    /\ hub[h] /\ ~discovery
    /\ lights' = Put(lights, h, get_lights(hub, h))
    /\ groups' = Put(groups, h, get_groups(hub, h))
    /\ UNCHANGED <<lightVars, raceVars, invVars, lastConnect,
                   mode, emptyGroups, envChanges, params_bridges, cust_bridges,
                   hub, hubOrder, scenes, scene_lookup, discovery, nodes, notices, dpc,
                   todo, cur, nconnects, npasses, passWorld, added, removed, lastPass>>
UpdateNodes == \E h \in DOMAIN hub : updateNodes(h)

HubNext ==
    \/ EnvChange
    \/ ParameterHandler
    \/ DiscoverCmd
    \/ DiscoverEnter
    \/ DiscoverLights
    \/ DiscoverGroupsStep
    \/ DiscoverReturn
    \/ UpdateNodes

vars == <<lightVars, hubVars>>

\* The controller and its bridges, the light node left as constructed.
InitHub == HubInit /\ LightInit
SpecHub == InitHub /\ [][HubNext]_vars

\* One light node, the controller left as constructed with one bridge
\* configured.
QuietHub ==
    /\ mode = [h \in Bridges |-> "open"]
    /\ emptyGroups = {}
    /\ bare = {}
    /\ renumbered = {}
    /\ anomalous = {}
    /\ params_bridges = Some(<<BridgeA>>)
    /\ ControlInit
InitLight == LightInit /\ QuietHub
SpecLight == InitLight /\ [][LightNext]_vars

\* ------------------------------------------------------------------------
\* Concurrent callbacks: the handler, the DISCOVER command and the poll each
\* run on a thread of their own and share self.hub, self.discovery, the
\* snapshots, the lookup and the nodes.  A step is one access to the shared
\* flag or one round of bridge reads.
\* ------------------------------------------------------------------------

\* Runs each thread starts.
MaxRuns == 1

\* What the concurrent callbacks leave alone.
seqVars ==
    <<lightVars, mode, emptyGroups, invVars, envChanges, params_bridges, dpc, todo, cur,
      npasses, passWorld, added, removed, lastPass>>

Goto(t, pc) == tpc' = [tpc EXCEPT ![t] = pc]
Started_run(t) == truns[t] < MaxRuns /\ truns' = [truns EXCEPT ![t] = @ + 1]

\* parameter_handler on its thread: connect(), then discover() up to the loop
\* over the hubs (line 58-59, 160-161).
RaceHandler ==
    /\ tpc["handler"] = "idle"
    /\ Started_run("handler")
    /\ LET c == connect
       IN  /\ Connected(c)
           /\ ttodo' = [ttodo EXCEPT !["handler"] = c.hubOrder]
    /\ scene_lookup' = << >>
    /\ Goto("handler", "check")
    /\ UNCHANGED <<seqVars, groups, scenes, discovery, nodes, tcur>>

\* The DISCOVER command on its thread: discover() up to the loop (line 160-161).
RaceCommand ==
    /\ tpc["command"] = "idle"
    /\ Started_run("command")
    /\ scene_lookup' = << >>
    /\ ttodo' = [ttodo EXCEPT !["command"] = hubOrder]
    /\ Goto("command", "check")
    /\ UNCHANGED <<seqVars, cust_bridges, hub, hubOrder, lights, groups, scenes,
                   discovery, nodes, notices, nconnects, lastConnect, tcur>>

\* _discover, line 166-167: the guard is read.  With no hub left discover()
\* returns.
RaceCheck(t) ==
    /\ tpc[t] = "check"
    /\ IF ttodo[t] = << >>
       THEN Goto(t, "idle") /\ UNCHANGED <<ttodo, tcur>>
       ELSE IF ~hub[Head(ttodo[t])] \/ discovery
       THEN ttodo' = [ttodo EXCEPT ![t] = Tail(@)] /\ UNCHANGED <<tpc, tcur>>
       ELSE /\ tcur' = [tcur EXCEPT ![t] = Head(ttodo[t])]
            /\ Goto(t, "raise")
            /\ UNCHANGED ttodo
    /\ UNCHANGED <<seqVars, cust_bridges, hub, hubOrder, lights, groups, scenes,
                   scene_lookup, discovery, nodes, notices, nconnects, lastConnect,
                   truns>>

\* _discover, line 168: the flag is raised.
RaceRaise(t) ==
    /\ tpc[t] = "raise"
    /\ discovery' = TRUE
    /\ Goto(t, "lights")
    /\ UNCHANGED <<seqVars, cust_bridges, hub, hubOrder, lights, groups, scenes,
                   scene_lookup, nodes, notices, nconnects, lastConnect, ttodo, tcur,
                   truns>>

\* _discover, line 171-197: the lights are pulled and their nodes added.
RaceLights(t) ==
    /\ tpc[t] = "lights"
    /\ LET pulled == get_lights(hub, tcur[t])
           a == AddLights([nodes |-> nodes, added |-> << >>, raised |-> FALSE],
                          tcur[t], pulled[1])
       IN  /\ lights' = Put(lights, tcur[t], pulled)
           /\ IF ~DictTruthy(pulled)
              THEN /\ discovery' = FALSE
                   /\ Goto(t, "check")
                   /\ ttodo' = [ttodo EXCEPT ![t] = Tail(@)]
                   /\ UNCHANGED nodes
              ELSE IF a.raised
              THEN /\ nodes' = a.nodes
                   /\ Goto(t, "idle")
                   /\ ttodo' = [ttodo EXCEPT ![t] = << >>]
                   /\ UNCHANGED discovery
              ELSE /\ nodes' = a.nodes
                   /\ Goto(t, "groups")
                   /\ UNCHANGED <<discovery, ttodo>>
    /\ UNCHANGED <<seqVars, cust_bridges, hub, hubOrder, groups, scenes, scene_lookup,
                   notices, nconnects, lastConnect, tcur, truns>>

\* _discover, line 199-240: scenes and groups are pulled, the group nodes
\* added or removed, the flag is lowered.
RaceGroups(t) ==
    /\ tpc[t] = "groups"
    /\ LET sc == get_scenes(hub, tcur[t])
           gs == get_groups(hub, tcur[t])
           a == DiscoverGroups([nodes |-> nodes, lookup |-> scene_lookup,
                                added |-> << >>, removed |-> << >>],
                               hub, tcur[t], sc, gs[1])
       IN  /\ scenes' = Put(scenes, tcur[t], sc)
           /\ groups' = Put(groups, tcur[t], gs)
           /\ IF ~DictTruthy(gs)
              THEN UNCHANGED <<nodes, scene_lookup>>
              ELSE nodes' = a.nodes /\ scene_lookup' = a.lookup
    /\ discovery' = FALSE
    /\ Goto(t, "check")
    /\ ttodo' = [ttodo EXCEPT ![t] = Tail(@)]
    /\ UNCHANGED <<seqVars, cust_bridges, hub, hubOrder, lights, notices, nconnects,
                   lastConnect, tcur, truns>>

\* poll on its thread, line 65: the loop over the hubs starts.
RacePoll ==
    /\ tpc["poll"] = "idle"
    /\ Started_run("poll")
    /\ ttodo' = [ttodo EXCEPT !["poll"] = hubOrder]
    /\ Goto("poll", "ucheck")
    /\ UNCHANGED <<seqVars, cust_bridges, hub, hubOrder, lights, groups, scenes,
                   scene_lookup, discovery, nodes, notices, nconnects, lastConnect,
                   tcur>>

\* updateNodes, line 243-244: the guard is read.  With no hub left poll()
\* returns.
RaceUpdateCheck ==
    /\ tpc["poll"] = "ucheck"
    /\ IF ttodo["poll"] = << >>
       THEN Goto("poll", "idle") /\ UNCHANGED <<ttodo, tcur>>
       ELSE IF ~hub[Head(ttodo["poll"])] \/ discovery
       THEN ttodo' = [ttodo EXCEPT !["poll"] = Tail(@)] /\ UNCHANGED <<tpc, tcur>>
       ELSE /\ tcur' = [tcur EXCEPT !["poll"] = Head(ttodo["poll"])]
            /\ Goto("poll", "upull")
            /\ UNCHANGED ttodo
    /\ UNCHANGED <<seqVars, cust_bridges, hub, hubOrder, lights, groups, scenes,
                   scene_lookup, discovery, nodes, notices, nconnects, lastConnect,
                   truns>>

\* updateNodes, line 245-253: lights and groups are pulled again.
RaceUpdatePull ==
    /\ tpc["poll"] = "upull"
    /\ lights' = Put(lights, tcur["poll"], get_lights(hub, tcur["poll"]))
    /\ groups' = Put(groups, tcur["poll"], get_groups(hub, tcur["poll"]))
    /\ ttodo' = [ttodo EXCEPT !["poll"] = Tail(@)]
    /\ Goto("poll", "ucheck")
    /\ UNCHANGED <<seqVars, cust_bridges, hub, hubOrder, scenes, scene_lookup,
                   discovery, nodes, notices, nconnects, lastConnect, tcur, truns>>

DiscoverCheck == \E t \in Discoverers : RaceCheck(t)
DiscoverRaise == \E t \in Discoverers : RaceRaise(t)
DiscoverPullLights == \E t \in Discoverers : RaceLights(t)
DiscoverPullGroups == \E t \in Discoverers : RaceGroups(t)

RaceNext ==
    \/ RaceHandler
    \/ RaceCommand
    \/ DiscoverCheck
    \/ DiscoverRaise
    \/ DiscoverPullLights
    \/ DiscoverPullGroups
    \/ RacePoll
    \/ RaceUpdateCheck
    \/ RaceUpdatePull

\* The bridges as the concurrent callbacks find them: every group has a
\* light, every bridge has one.
RaceInit ==
    /\ mode \in [Bridges -> Modes]
    /\ emptyGroups = {}
    /\ bare = {}
    /\ renumbered = {}
    /\ anomalous = {}
    /\ params_bridges \in {Some(<<BridgeA>>), Some(<<BridgeA, BridgeB>>)}
    /\ ControlInit
    /\ LightInit
SpecRace == RaceInit /\ [][RaceNext]_vars

\* ------------------------------------------------------------------------
\* Properties of discovery
\* ------------------------------------------------------------------------

\* The last completed pass and the one before it ran, from the start of the
\* first to the end of the second, against the same bridges and hubs.
TwoPassesSameWorld ==
    /\ lastPass # None
    /\ lastPass[1].steady
    /\ lastPass[1].prev # None
    /\ lastPass[1].prev[1].steady
    /\ lastPass[1].prev[1].world = lastPass[1].world

\* C9: a second discovery pass over unchanged bridges leaves the set of
\* tracked nodes as the first pass left it, adds no node and removes none.
C9_DiscoveryIdempotent ==
    TwoPassesSameWorld
    => (/\ lastPass[1].nodes = lastPass[1].prev[1].nodes
        /\ lastPass[1].added = << >>
        /\ lastPass[1].removed = << >>)

\* The scenes the lookup has to hold for world w: those of every bridge that
\* has a session and answers, whose group is a group of that bridge with at
\* least one member light.
ExpectedScenes(w) ==
    {[hub |-> h, id |-> BridgeScenes(h)[i].id] :
        <<h, i>> \in {x \in (DOMAIN w.hub) \X (1..3) :
            /\ w.hub[x[1]]
            /\ w.mode[x[1]] # "down"
            /\ x[2] <= Len(BridgeScenes(x[1]))
            /\ BridgeScenes(x[1])[x[2]].group # None
            /\ \E k \in 1..Len(BridgeGroupIds(x[1])) :
                   BridgeGroupIds(x[1])[k] = BridgeScenes(x[1])[x[2]].group[1]
            /\ <<x[1], BridgeScenes(x[1])[x[2]].group[1]>> \notin w.emptyGroups}}
LookupScenes(lookup) ==
    {[hub |-> lookup[i].hub, id |-> lookup[i].id] : i \in 1..Len(lookup)}

\* C10: after every completed discovery pass the scene lookup holds exactly
\* one entry for each such scene, and a second pass over unchanged bridges
\* yields the index of the first.
C10_SceneLookupComplete ==
    /\ (lastPass # None /\ lastPass[1].steady)
         => (/\ LookupScenes(lastPass[1].lookup) = ExpectedScenes(lastPass[1].world)
             /\ Len(lastPass[1].lookup) = Cardinality(ExpectedScenes(lastPass[1].world)))
    /\ TwoPassesSameWorld => lastPass[1].lookup = lastPass[1].prev[1].lookup

\* A group node for group g of bridge h is among the nodes ns.
GroupTracked(ns, h, g) ==
    \E a \in DOMAIN ns : ns[a].cls = "HueGroup" /\ ns[a].hub = h /\ ns[a].id = g

\* _discover of bridge `cur` ends here with lights and groups pulled.
BridgePassDone == dpc = "groups" /\ dpc' = "enter" /\ DictTruthy(groups'[cur])

\* C11: when the discovery pass of a bridge succeeds, a group node is tracked
\* for each group the bridge reported with a member light and none for a group
\* it reported without one.
C11_GroupsFollowMembers ==
    [][BridgePassDone =>
         \A i \in 1..Len(groups'[cur][1]) :
             (groups'[cur][1][i].lights # {})
                 <=> GroupTracked(nodes', cur, groups'[cur][1][i].id)]_vars

\* The group ids the bridges report.
GroupIdsOf(h) == {BridgeGroupIds(h)[i] : i \in 1..Len(BridgeGroupIds(h))}

\* C12: with more than one bridge configured, two groups that differ in
\* bridge or in group id get different node addresses.
C12_GroupAddressInjective ==
    Cardinality(DOMAIN hub) > 1 =>
        \A h1 \in DOMAIN hub, h2 \in DOMAIN hub :
            \A g1 \in GroupIdsOf(h1), g2 \in GroupIdsOf(h2) :
                <<h1, g1>> # <<h2, g2>>
                    => GroupAddress(hub, h1, g1) # GroupAddress(hub, h2, g2)

\* _discover of bridge `cur` returns at line 175: the light pull failed.
DiscoverAborted == dpc = "lights" /\ dpc' = "enter"

\* C16: a discovery pass of a bridge that aborts on a failed light pull leaves
\* the bridge's light, group and scene snapshots, the tracked nodes and the
\* scene lookup as they were.
C16_AbortLeavesState ==
    [][DiscoverAborted =>
         /\ Get(lights', cur) = Get(lights, cur)
         /\ Get(groups', cur) = Get(groups, cur)
         /\ Get(scenes', cur) = Get(scenes, cur)
         /\ nodes' = nodes
         /\ scene_lookup' = scene_lookup]_vars

\* C17: a sync tick whose pull of lights or groups fails leaves the snapshot
\* of that kind the bridge had.
C17_FailedPullKeepsSnapshot ==
    [][\A h \in DOMAIN hub :
         updateNodes(h) =>
             /\ get_lights(hub, h) = None => Get(lights', h) = Get(lights, h)
             /\ get_groups(hub, h) = None => Get(groups', h) = Get(groups, h)]_vars

\* ------------------------------------------------------------------------
\* Properties of connect
\* ------------------------------------------------------------------------

\* This step runs connect() (the first part of parameter_handler).
Connecting == nconnects' = nconnects + 1
\* phue.Bridge sets up a session for bridge h in connect().
Established(h) ==
    BridgeSession(h, IF HasIp(PersistedBridges, h) THEN Some("") ELSE None) = "ok"
\* The bridge answers the light-list read.
ReadOk(h) == PullLights(h) # None
\* Bridge h has a session in self.hub after the step.
LiveAfter(h) == h \in DOMAIN hub' /\ hub'[h]
\* The addresses connect() is given.
Configured == {hub_list[i][1] : i \in {j \in 1..Len(hub_list) : hub_list[j] # None}}

\* C18: connect tries each configured address once, whatever happened to the
\* ones before it, and every bridge that can connect ends up live.
C18_EveryBridgeAttempted ==
    [][Connecting =>
         /\ lastConnect'[1].tried = hub_list
         /\ \A h \in Configured : (Established(h) /\ ReadOk(h)) => LiveAfter(h)]_vars

\* C19: after connect a bridge is live exactly if its session was set up and
\* the light-list read succeeded; a bridge that is not live adds no
\* credential.
C19_LiveIffVerified ==
    [][Connecting =>
         \A h \in Configured :
             /\ LiveAfter(h) <=> (Established(h) /\ ReadOk(h))
             /\ (~LiveAfter(h) /\ ~HasIp(PersistedBridges, h))
                    => (cust_bridges' = None \/ ~HasIp(cust_bridges'[1], h))]_vars

\* A credential was obtained for an address that had none persisted.
Obtained == \E h \in Configured : LiveAfter(h) /\ ~HasIp(PersistedBridges, h)
OneEntryPerAddress(bl) ==
    \A i \in 1..Len(bl), j \in 1..Len(bl) : bl[i].ip = bl[j].ip => i = j

\* C20: connect writes the persisted credentials exactly when it obtained a
\* credential for an address that had none, and what it writes holds the
\* pairs persisted before and the new ones, one entry per address.
C20_SavesOnNewCredential ==
    [][Connecting =>
         /\ lastConnect'[1].wrote <=> Obtained
         /\ lastConnect'[1].wrote =>
              /\ cust_bridges' # None
              /\ \A i \in 1..Len(PersistedBridges) :
                     \E j \in 1..Len(cust_bridges'[1]) :
                         cust_bridges'[1][j] = PersistedBridges[i]
              /\ \A h \in Configured :
                     (LiveAfter(h) /\ ~HasIp(PersistedBridges, h))
                         => \E j \in 1..Len(cust_bridges'[1]) :
                                cust_bridges'[1][j] = [ip |-> h, user |-> UserOf(h)]
              /\ OneEntryPerAddress(cust_bridges'[1])]_vars

\* ------------------------------------------------------------------------
\* Properties of the concurrent callbacks
\* ------------------------------------------------------------------------

\* Thread t is inside _discover for bridge h with the flag raised by it and
\* not yet lowered by it.
Discovering(t, h) == tpc[t] \in {"lights", "groups"} /\ tcur[t] = h
\* The poll thread is inside updateNodes for bridge h, past the guard.
Syncing(h) == tpc["poll"] = "upull" /\ tcur["poll"] = h

\* C13: at most one discovery pass is in flight for a bridge.
C13_OnePassPerBridge ==
    \A h \in Bridges :
        \A t1 \in Discoverers, t2 \in Discoverers :
            (Discovering(t1, h) /\ Discovering(t2, h)) => t1 = t2

\* C14: a sync tick and a discovery pass for the same bridge never overlap.
C14_SyncExcludesDiscovery ==
    \A h \in Bridges : \A t \in Discoverers : ~(Syncing(h) /\ Discovering(t, h))

\* Thread t reads the guard for a bridge that has a session and is turned away.
Rejected(t) ==
    /\ tpc[t] \in {"check", "ucheck"}
    /\ ttodo[t] # << >>
    /\ hub[Head(ttodo[t])]
    /\ ttodo'[t] = Tail(ttodo[t])

\* C15: a discovery pass or a sync tick for a live bridge is turned away only
\* by a discovery in flight for that same bridge, never by one for another.
C15_GuardPerBridge ==
    [][\A t \in Threads :
         Rejected(t) =>
             \E d \in Discoverers \ {t} : Discovering(d, Head(ttodo[t]))]_vars

\* ------------------------------------------------------------------------
\* Properties of failure handling across poll and discovery
\* ------------------------------------------------------------------------

\* The last light pull from bridge h failed and connect() has not run since:
\* the bridge has a session (connect leaves none after a failure) and the
\* snapshot holds the None that a failed pull returns.
FailedSinceConnect(h) == hub[h] /\ h \in DOMAIN lights /\ lights[h] = None
\* This step calls bridge h from a poll tick or a discovery pass.
BridgeCalled(h) ==
    \/ updateNodes(h)
    \/ cur = h /\ dpc = "lights" /\ dpc' # "lights"
    \/ cur = h /\ dpc = "groups" /\ dpc' # "groups"

\* C21: a bridge whose connection failed gets no call from a poll tick or a
\* discovery pass until connect() runs again.
C21_NoCallAfterFailure ==
    [][\A h \in DOMAIN hub :
         /\ (~hub[h] /\ ~Connecting) => ~BridgeCalled(h)
         /\ (FailedSinceConnect(h) /\ ~Connecting) => ~BridgeCalled(h)]_vars

\* ------------------------------------------------------------------------
\* Properties of the commands of a light node
\* ------------------------------------------------------------------------

\* The last handler was a device command that wrote to the bridge.
WroteToBridge == payload # None

\* C22: every device command returns a boolean to its caller and raises
\* nothing; a failed bridge write makes the command return false.
C22_CommandsReturnBoolean ==
    WroteToBridge => result \in {"True", "False"}

\* ------------------------------------------------------------------------
\* The controller and one of its light nodes together: the node of the first
\* light of the first bridge gets commands while the controller connects,
\* discovers and polls.
\* ------------------------------------------------------------------------

\* The address and the bridge of the light node.
LightAddress == id_2_addr(BridgeLights(BridgeA)[1].uniqueid)
LightBridge == BridgeA

\* The host delivers commands to the nodes addNode was called for.
NodeTracked == LightAddress \in DOMAIN nodes

NodeStart == NodeTracked /\ Start
NodeTurnOn == NodeTracked /\ TurnOn
NodeTurnOff == NodeTracked /\ TurnOff

SystemNext ==
    \/ ParameterHandler
    \/ DiscoverCmd
    \/ DiscoverEnter
    \/ DiscoverLights
    \/ DiscoverGroupsStep
    \/ DiscoverReturn
    \/ UpdateNodes
    \/ NodeStart
    \/ NodeTurnOn
    \/ NodeTurnOff

SpecSystem == InitLight /\ [][SystemNext]_vars

\* _discover has raised the flag for bridge h and has not lowered it yet.
DiscoveryHolds(h) == discovery /\ cur = h
\* A command handler of the node runs and calls set_light.
BridgeWrite == ncmds' = ncmds + 1 /\ payload' # None

\* C23: no command writes to a bridge while a discovery pass holds the
\* guard of that bridge; the write waits until the pass has finished.
C23_NoWriteDuringDiscovery ==
    [][DiscoveryHolds(LightBridge) => ~BridgeWrite]_vars

\* ------------------------------------------------------------------------
\* The controller with bridges whose listing changes: a bridge gives its
\* lights other indices, or lists an entry without hardware id.
\* ------------------------------------------------------------------------

\* A bridge gives its lights other indices (lights are paired anew).
Renumber ==
    /\ envChanges < MaxEnvChanges
    /\ envChanges' = envChanges + 1
    /\ \E h \in RenumberBridges \ renumbered : renumbered' = renumbered \cup {h}
    /\ UNCHANGED <<lightVars, raceVars, bare, anomalous, lastConnect, mode, emptyGroups,
                   params_bridges, cust_bridges, hub, hubOrder, lights, groups,
                   scenes, scene_lookup, discovery, nodes, notices, dpc, todo, cur,
                   nconnects, npasses, passWorld, added, removed, lastPass>>

InitInventory ==
    /\ mode \in [Bridges -> Modes]
    /\ emptyGroups = {}
    /\ bare = {}
    /\ renumbered = {}
    /\ anomalous \in SUBSET AnomalousBridges
    /\ params_bridges \in {Some(<<BridgeA>>), Some(<<BridgeA, BridgeB>>)}
    /\ ControlInit
    /\ LightInit

InventoryNext ==
    \/ EnvChange
    \/ Renumber
    \/ ParameterHandler
    \/ DiscoverCmd
    \/ DiscoverEnter
    \/ DiscoverLights
    \/ DiscoverGroupsStep
    \/ DiscoverReturn
    \/ UpdateNodes

SpecInventory == InitInventory /\ [][InventoryNext]_vars

\* The light nodes the host tracks.
LightNodes == {n \in DOMAIN nodes : nodes[n].cls # "HueGroup"}
\* The addresses of the hardware listed under index lamp_id in the listing ls.
HardwareAt(ls, lamp_id) ==
    {id_2_addr(ls[i].uniqueid) :
        i \in {j \in DOMAIN ls : ls[j].id = lamp_id /\ ls[j].uniqueid # None}}
\* HueDimmLight.updateInfo reads the snapshot under self.lamp_id; query and
\* _send_command call the bridge with self.lamp_id.
RefreshReads(n) == HardwareAt(lights[nodes[n].hub][1], nodes[n].id)
CommandReaches(n) == HardwareAt(PullLights(nodes[n].hub)[1], nodes[n].id)
\* discover() has returned and the bridges are as that pass saw them all along.
SettledPass ==
    /\ dpc = "idle"
    /\ lastPass # None
    /\ lastPass[1].steady
    /\ lastPass[1].world = World
\* The bridge of node n is live and lists its lights.
Listed(n) ==
    /\ nodes[n].hub \in DOMAIN hub
    /\ hub[nodes[n].hub]
    /\ DictTruthy(lights[nodes[n].hub])
    /\ DictTruthy(PullLights(nodes[n].hub))

\* C24: a light node stays bound to its light by hardware id: after a
\* discovery pass over a bridge that gave the light another index, refresh,
\* query and commands of the node still address the light with the node's
\* hardware id.
C24_BoundToHardwareId ==
    SettledPass =>
        \A n \in LightNodes :
            Listed(n) => (RefreshReads(n) = {n} /\ CommandReaches(n) = {n})

\* C25: when no discover() call is running the discovery flag is lowered,
\* whichever way the last pass was left.
C25_GuardReleased ==
    dpc = "idle" => ~discovery

\* ------------------------------------------------------------------------
\* Properties of the remembered brightness
\* ------------------------------------------------------------------------

\* C26: a bri that a turn-on payload carries without the command having
\* specified it is the brightness the node had at the most recent off
\* command; a brightness remembered at an earlier off is not applied again.
C26_RestoresLastOff ==
    (Unsolicited /\ PayloadOn(payload))
    => (offBri # None /\ payload[1].bri = offBri[1])
====
